---------------------------- MODULE Spec2Model ----------------------------
(***************************************************************************)
(* Early-warning dashboard (app.py, score_dashboard.py).                   *)
(*                                                                         *)
(* The module holds one state machine per part of the program:             *)
(*   Spec        the score upload handler and the persisted master table   *)
(*   SpecLight   color_light and apply_thresholds over a roster            *)
(*   SpecBasic   the scan loop of risk_snapshot_basic                      *)
(*   SpecWindow  the window loop of window_any_subject_alert_AND           *)
(*   SpecAdv     risk_snapshot_advanced                                    *)
(*   SpecAnon    generate_anon_map and the persisted alias map             *)
(*   SpecPage    one call of each detector, empty inputs included          *)
(*   SpecBands   one score under color_light, counts and color_cell        *)
(*   SpecLen     the window loop under every window length                 *)
(*   SpecSessions two sessions stepping through the upsert block           *)
(* Each specification leaves the variables of the other parts at rest.     *)
(***************************************************************************)
EXTENDS Integers, Sequences, FiniteSets, TLC

VARIABLES
    \* ---- score upload (app.py 255-292)
    master,      \* rows of scores_master.csv, in file order
    file,        \* rows of the CSV in the upload widget, as text
    processed,   \* TRUE once the handler ran on `file`
    dropped,     \* the count shown by the "invalid rows ignored" warning
    latest,      \* history: key -> <<score>> of the last valid row uploaded for it
    overwrote,   \* history: the last upload gave a stored key another score
    \* ---- color_light (app.py 58-65)
    clScore,     \* the score argument, NaN when missing
    clRed,       \* red_max
    clYellow,    \* yellow_max
    clBand,      \* the value returned, "" before the call
    \* ---- apply_thresholds (app.py 67-89)
    students,    \* students_df[["student_id","program"]], in file order
    thresholds,  \* the thresholds dict: global pair and by_program overrides
    scores,      \* scores_df, in file order
    merged,      \* the table returned
    lightDone,   \* TRUE once apply_thresholds returned
    \* ---- risk_snapshot_basic (app.py 110-136)
    basicIn,     \* the merged table handed in (the columns the function reads)
    basicOut,    \* the risks table returned
    basicDone,   \* TRUE once risk_snapshot_basic returned
    \* ---- window_any_subject_alert_AND (score_dashboard.py 180-241)
    df_score,    \* the score sheet handed in: rows (ID, Week, Biochem, MolBio)
    awParams,    \* red/yellow thresholds, window_len, min_red, min_total
    alert_df,    \* the alert table returned
    alertDone,   \* TRUE once window_any_subject_alert_AND returned
    \* ---- risk_snapshot_advanced (app.py 138-177)
    advIn,       \* the merged table handed in (the columns the function reads)
    advTh,       \* the thresholds dict handed in
    advOut,      \* the table returned
    advDone,     \* TRUE once risk_snapshot_advanced returned
    \* ---- generate_anon_map (app.py 202-218)
    anon_map,    \* rows (student_id, anon_id) of anon_map.csv, in file order
    assigned,    \* history: every (student_id, anon_id) the file ever held
    \* ---- one call of a detector (app.py 346-394, score_dashboard.py 244)
    called,      \* the function that ran last, "" before any call
    arg,         \* the table(s) it was handed
    result,      \* the rows of the table it returned
    raised,      \* TRUE when it raised an exception
    returnedAt,  \* the source line of the return (or branch) it took
    \* ---- one score under the three classifiers
    bdScore,     \* the score, present
    bdRed,       \* the red threshold
    bdYellow,    \* the yellow threshold
    bdLight,     \* what color_light returned, "" before the calls
    bdCount,     \* what counts returned for the series of this one score
    bdStyle,     \* what color_cell returned
    bdDone,      \* TRUE once the three ran
    \* ---- the window loop under any window length
    wlSheet,     \* the score sheet handed in
    wlParams,    \* thresholds, window_len, min_red, min_total
    wlAlerts,    \* the alert table returned
    wlVisited,   \* history: the windows the loop went through
    wlDone,      \* TRUE once the detector returned
    \* ---- two sessions in the upsert block (app.py 280-291)
    disk,        \* rows of scores_master.csv, in file order
    pc,          \* session -> the line it is about to run, "done" after 291
    sMaster,     \* session -> its local `master`
    sNew         \* session -> its local `new_scores` (valid rows)

uploadVars == <<master, file, processed, dropped, latest, overwrote>>
colorVars == <<clScore, clRed, clYellow, clBand>>
lightVars == <<students, thresholds, scores, merged, lightDone>>
basicVars == <<basicIn, basicOut, basicDone>>
windowVars == <<df_score, awParams, alert_df, alertDone>>
advVars == <<advIn, advTh, advOut, advDone>>
anonVars == <<anon_map, assigned>>
pageVars == <<called, arg, result, raised, returnedAt>>
bandVars == <<bdScore, bdRed, bdYellow, bdLight, bdCount, bdStyle, bdDone>>
lenVars == <<wlSheet, wlParams, wlAlerts, wlVisited, wlDone>>
sessionVars == <<disk, pc, sMaster, sNew>>

vars ==
    <<uploadVars, colorVars, lightVars, basicVars, windowVars, advVars, anonVars, pageVars, bandVars, lenVars, sessionVars>>

(***************************************************************************)
(* Values                                                                  *)
(***************************************************************************)
\* A missing score (float NaN): what pd.to_numeric(errors="coerce") gives for
\* text that is no number and what pd.isna tests.  Scores proper are >= 0.
NaN == -1

SUBJECTS == {"BIOCHEM", "MOLBIO"}
ASSESS_TYPES == {"WEEKLY", "MIDTERM", "FINAL"}
MinWeek == 1
MaxWeek == 18

\* Longest upload file explored.
MaxRows == 2

RECURSIVE SelectSeqIdx(_, _, _)
\* The subsequence of s at the positions i (in order) with keep[i].
SelectSeqIdx(s, keep, i) ==
    IF i > Len(s) THEN <<>>
    ELSE (IF keep[i] THEN <<s[i]>> ELSE <<>>) \o SelectSeqIdx(s, keep, i + 1)

(***************************************************************************)
(* Score upload: app.py 255-292                                            *)
(***************************************************************************)
\* .str.upper().str.strip() on the texts the explored files hold.
UpperStrip(t) ==
    CASE t = " biochem" -> "BIOCHEM"
      [] t = "molbio "  -> "MOLBIO"
      [] t = "weekly"   -> "WEEKLY"
      [] t = "Midterm"  -> "MIDTERM"
      [] t = "physics"  -> "PHYSICS"
      [] t = "quiz"     -> "QUIZ"
      [] OTHER          -> t

\* pd.to_numeric(errors="coerce") on the score texts the explored files hold.
ToNumeric(t) ==
    CASE t = "35" -> 35
      [] t = "80" -> 80
      [] OTHER    -> NaN

\* The rows a file may hold: well-formed rows for three keys, and one row for
\* each way a row can be malformed.
InputRows ==
    [student_id : {1, 2}, week : {1}, subject : {" biochem"},
     type : {"weekly"}, raw_score : {"35", "80"}]
    \cup
    {[student_id |-> 1, week |-> 9, subject |-> "molbio ",
      type |-> "Midterm", raw_score |-> "80"],
     [student_id |-> 1, week |-> 1, subject |-> " biochem",
      type |-> "weekly", raw_score |-> "abc"],
     [student_id |-> 1, week |-> 1, subject |-> "physics",
      type |-> "weekly", raw_score |-> "35"],
     [student_id |-> 1, week |-> 1, subject |-> " biochem",
      type |-> "quiz", raw_score |-> "35"],
     [student_id |-> 1, week |-> 0, subject |-> " biochem",
      type |-> "weekly", raw_score |-> "35"],
     [student_id |-> 2, week |-> 19, subject |-> " biochem",
      type |-> "weekly", raw_score |-> "80"]}

\* Lines 271-274: the four column conversions, row by row.
Standardize(r) ==
    [student_id |-> r.student_id,
     week       |-> r.week,
     subject    |-> UpperStrip(r.subject),
     type       |-> UpperStrip(r.type),
     raw_score  |-> ToNumeric(r.raw_score)]

\* Line 275, without its week test.
RowOkNoWeek(r) ==
    /\ r.subject \in SUBJECTS
    /\ r.type \in ASSESS_TYPES

\* Line 275: ok = subject.isin(SUBJECTS) & type.isin(ASSESS_TYPES) & week.between(1,18)
RowOk(r) ==
    /\ r.subject \in SUBJECTS
    /\ r.type \in ASSESS_TYPES
    /\ r.week >= MinWeek /\ r.week <= MaxWeek

KeyOf(r) == <<r.student_id, r.week, r.subject, r.type>>

\* Line 284: drop_duplicates(subset=key columns, keep="last"): the row at i stays
\* iff no later row has its key.
DropDuplicatesKeepLast(s) ==
    SelectSeqIdx(s, [i \in 1..Len(s) |->
                        \A j \in (i + 1)..Len(s) : KeyOf(s[j]) # KeyOf(s[i])], 1)

\* Line 288 alone: the new rows appended with no row of master removed.
AppendOnly(m, new) == m \o new

\* Lines 285-290: master rows whose key is among the new rows are removed, the
\* new rows are appended; an empty master is replaced by the new rows.
Upsert(m, new) ==
    IF Len(m) > 0
    THEN SelectSeqIdx(m, [i \in 1..Len(m) |->
                             \A j \in 1..Len(new) : KeyOf(new[j]) # KeyOf(m[i])], 1)
         \o new
    ELSE new

\* Lines 271-278 on a whole file.
Standardized(f) == [i \in 1..Len(f) |-> Standardize(f[i])]
ValidRows(f) ==
    SelectSeqIdx(Standardized(f), [i \in 1..Len(f) |-> RowOk(Standardized(f)[i])], 1)
InvalidCount(f) == Len(f) - Len(ValidRows(f))

\* What the data model asks of a stored record: subject and type in their
\* enumerated sets and the week in 1..18.
WellFormedRow(r) ==
    /\ r.subject \in {"BIOCHEM", "MOLBIO"}
    /\ r.type \in {"WEEKLY", "MIDTERM", "FINAL"}
    /\ r.week \in 1..18

ValidKeys ==
    {KeyOf(Standardize(r)) : r \in {x \in InputRows : WellFormedRow(Standardize(x))}}

UploadInit ==
    /\ master = <<>>
    /\ file = <<>>
    /\ processed = FALSE
    /\ dropped = 0
    /\ latest = [k \in ValidKeys |-> <<>>]
    /\ overwrote = FALSE

\* The user puts one more row in the CSV that will be uploaded.
AppendRow ==
    /\ ~processed
    /\ Len(file) < MaxRows
    /\ \E r \in InputRows : file' = Append(file, r)
    /\ UNCHANGED <<master, processed, dropped, latest, overwrote>>

\* The record of `latest` after a file: for a key with a valid row in the file,
\* the score of the last such row.
LatestAfter(old, f) ==
    LET std == Standardized(f)
        hits(k) == {i \in 1..Len(f) : WellFormedRow(std[i]) /\ KeyOf(std[i]) = k}
        last(k) == CHOOSE i \in hits(k) : \A j \in hits(k) : j <= i
    IN [k \in ValidKeys |->
          IF hits(k) = {} THEN old[k] ELSE <<std[last(k)].raw_score>>]

\* Lines 255-292: the handler, from the read of the uploaded file to save_csv.
Upload ==
    /\ ~processed
    /\ master' = Upsert(master, DropDuplicatesKeepLast(ValidRows(file)))
    /\ dropped' = InvalidCount(file)
    /\ processed' = TRUE
    /\ latest' = LatestAfter(latest, file)
    /\ overwrote' = \E k \in ValidKeys :
                       /\ latest[k] # <<>>
                       /\ LatestAfter(latest, file)[k] # latest[k]
    /\ UNCHANGED file

\* The user clears the widget and starts another file.
NewFile ==
    /\ processed
    /\ file' = <<>>
    /\ processed' = FALSE
    /\ dropped' = 0
    /\ overwrote' = FALSE
    /\ UNCHANGED <<master, latest>>

UploadNext == AppendRow \/ Upload \/ NewFile

MasterIdx == 1..Len(master)
FileIdx == 1..Len(file)

\* C1: upsert law.  The master table holds at most one record per
\* (student_id, week, subject, type) key; a key that appeared in a valid row
\* of some upload is stored exactly once, with the score of the last valid
\* row of the most recent upload that contained it; a key no upload held is
\* not stored; so an upload changes nothing about the keys it does not hold.
C1_UpsertLaw ==
    /\ \A i, j \in MasterIdx : KeyOf(master[i]) = KeyOf(master[j]) => i = j
    /\ \A i \in MasterIdx : KeyOf(master[i]) \in ValidKeys
    /\ \A k \in ValidKeys :
          IF latest[k] = <<>>
          THEN \A i \in MasterIdx : KeyOf(master[i]) # k
          ELSE \E i \in MasterIdx : /\ KeyOf(master[i]) = k
                                    /\ master[i].raw_score = latest[k][1]

\* An upload has just replaced the score of a stored key, the file held two
\* valid rows for one key with different scores, and a record of a key the
\* file does not hold is still stored.
C1_Witness ==
    /\ processed /\ overwrote
    /\ \E i, j \in FileIdx :
          /\ i < j
          /\ WellFormedRow(Standardize(file[i])) /\ WellFormedRow(Standardize(file[j]))
          /\ KeyOf(Standardize(file[i])) = KeyOf(Standardize(file[j]))
          /\ file[i].raw_score # file[j].raw_score
    /\ \E m \in MasterIdx :
          \A i \in FileIdx : KeyOf(Standardize(file[i])) # KeyOf(master[m])

MaxThreshold == 4

ThresholdValues == 0..MaxThreshold
ScoreValues == 0..(MaxThreshold + 1)

\* color_light with strict comparisons (score < red_max, score < yellow_max).
color_light_strict(score, red_max, yellow_max) ==
    IF score = NaN THEN "GRAY"
    ELSE IF score < red_max THEN "RED"
    ELSE IF score < yellow_max THEN "YELLOW"
    ELSE "GREEN"

\* Lines 58-65.
color_light(score, red_max, yellow_max) ==
    IF score = NaN THEN "GRAY"
    ELSE IF score <= red_max THEN "RED"
    ELSE IF score <= yellow_max THEN "YELLOW"
    ELSE "GREEN"

ColorIdle ==
    /\ clScore = NaN /\ clRed = 0 /\ clYellow = 0 /\ clBand = ""

ColorInit ==
    /\ clScore \in ScoreValues \cup {NaN}
    /\ clRed \in ThresholdValues
    /\ clYellow \in ThresholdValues
    /\ clBand = ""

\* One call of color_light on the arguments at hand.
Classify ==
    /\ clBand = ""
    /\ clBand' = color_light(clScore, clRed, clYellow)
    /\ UNCHANGED <<clScore, clRed, clYellow>>

\* C2: color_light is total; a missing score is GRAY whatever the thresholds;
\* with yellow_max >= red_max a present score gets exactly one of RED, YELLOW,
\* GREEN: RED iff s <= red_max, YELLOW iff red_max < s <= yellow_max, GREEN
\* iff s > yellow_max.
C2_ColorLightPartition ==
    clBand # "" =>
        /\ clBand \in {"GRAY", "RED", "YELLOW", "GREEN"}
        /\ (clScore = NaN) <=> (clBand = "GRAY")
        /\ (clScore # NaN /\ clYellow >= clRed) =>
              /\ (clBand = "RED") <=> (clScore <= clRed)
              /\ (clBand = "YELLOW") <=> (clScore > clRed /\ clScore <= clYellow)
              /\ (clBand = "GREEN") <=> (clScore > clYellow)

\* A score on the red boundary was classified, with room for a yellow band.
C2_Witness ==
    /\ clBand = "RED" /\ clScore = clRed /\ clYellow > clRed

(***************************************************************************)
(* apply_thresholds: app.py 67-89                                          *)
(***************************************************************************)
\* Longest roster and longest score table explored.
MaxStudents == 2
MaxScoreRows == 2

\* A missing program (NaN after the left merge, or an empty cell of the roster).
NoProgram == "nan"

RosterRows ==
    {[student_id |-> 1, program |-> "P1"],
     [student_id |-> 1, program |-> "P2"],
     [student_id |-> 2, program |-> "P1"],
     [student_id |-> 2, program |-> NoProgram]}

ScoreRows ==
    [student_id : {1, 2, 3}, week : {1}, subject : {"BIOCHEM"},
     type : {"WEEKLY"}, raw_score : {NaN, 1, 2, 3}]

Pair(r, y) == [red_max |-> r, yellow_max |-> y]

ThresholdConfigs ==
    [global : {Pair(1, 3), Pair(3, 1)},
     by_program : {<<>>, [p \in {"P1"} |-> Pair(2, 2)]}]

SeqsUpTo(S, n) == UNION {[1..k -> S] : k \in 0..n}

RECURSIVE FlattenSeq(_)
\* The concatenation of a sequence of sequences.
FlattenSeq(ss) == IF ss = <<>> THEN <<>> ELSE Head(ss) \o FlattenSeq(Tail(ss))

\* Line 69: scores_df.merge(students_df[["student_id","program"]],
\* on="student_id", how="left"): each score row once per roster row with its
\* student_id, in roster order; once with a missing program when there is none.
LeftMerge(sc, st) ==
    FlattenSeq([i \in 1..Len(sc) |->
        LET hit == SelectSeqIdx(st, [j \in 1..Len(st) |->
                                        st[j].student_id = sc[i].student_id], 1)
            with(p) == [student_id |-> sc[i].student_id, week |-> sc[i].week,
                        subject |-> sc[i].subject, type |-> sc[i].type,
                        raw_score |-> sc[i].raw_score, program |-> p]
        IN IF hit = <<>> THEN <<with(NoProgram)>>
           ELSE [j \in 1..Len(hit) |-> with(hit[j].program)]])

\* get_pair without the override branch.
get_pair_global(prog, t) == t.global

\* Lines 70-78: get_pair.
get_pair(prog, t) ==
    IF prog # NoProgram /\ prog \in DOMAIN t.by_program
    THEN [red_max |-> t.by_program[prog].red_max,
          yellow_max |-> t.by_program[prog].yellow_max]
    ELSE [red_max |-> t.global.red_max, yellow_max |-> t.global.yellow_max]

\* Lines 67-89 (the assessment_key column is left out).
apply_thresholds(sc, t, st) ==
    LET m == LeftMerge(sc, st)
    IN [i \in 1..Len(m) |->
          LET p == get_pair(m[i].program, t)
          IN [student_id |-> m[i].student_id, week |-> m[i].week,
              subject |-> m[i].subject, type |-> m[i].type,
              raw_score |-> m[i].raw_score, program |-> m[i].program,
              red_max |-> p.red_max, yellow_max |-> p.yellow_max,
              light |-> color_light(m[i].raw_score, p.red_max, p.yellow_max)]]

LightIdle ==
    /\ students = <<>> /\ scores = <<>> /\ merged = <<>>
    /\ thresholds = [global |-> Pair(40, 70), by_program |-> <<>>]
    /\ lightDone = FALSE

LightInit ==
    /\ students \in SeqsUpTo(RosterRows, MaxStudents)
    /\ scores \in SeqsUpTo(ScoreRows, MaxScoreRows)
    /\ thresholds \in ThresholdConfigs
    /\ merged = <<>>
    /\ lightDone = FALSE

\* Line 346: merged = apply_thresholds(scores, thresholds, students).
ApplyThresholds ==
    /\ ~lightDone
    /\ merged' = apply_thresholds(scores, thresholds, students)
    /\ lightDone' = TRUE
    /\ UNCHANGED <<students, thresholds, scores>>

\* C8: every score record comes out of apply_thresholds (it never fails);
\* each row that comes out carries a program of its student in the roster
\* (none when the student is not in the roster), the pair of that program's
\* override when by_program has one and the global pair otherwise, and the
\* light color_light gives its raw score under that pair.
C8_EffectivePair ==
    lightDone =>
        /\ \A i \in 1..Len(scores) :
              \E m \in 1..Len(merged) :
                  /\ merged[m].student_id = scores[i].student_id
                  /\ merged[m].raw_score = scores[i].raw_score
        /\ \A m \in 1..Len(merged) :
              LET row == merged[m]
                  inRoster == {j \in 1..Len(students) :
                                  students[j].student_id = row.student_id}
                  want == IF row.program \in DOMAIN thresholds.by_program
                          THEN thresholds.by_program[row.program]
                          ELSE thresholds.global
              IN /\ IF inRoster = {} THEN row.program = NoProgram
                    ELSE \E j \in inRoster : students[j].program = row.program
                 /\ row.red_max = want.red_max
                 /\ row.yellow_max = want.yellow_max
                 /\ row.light = color_light(row.raw_score, want.red_max, want.yellow_max)

\* apply_thresholds returned a row under a program override next to a row of
\* a student who is not in the roster, under the global pair.
C8_Witness ==
    /\ lightDone
    /\ \E m \in 1..Len(merged) :
          /\ merged[m].program \in DOMAIN thresholds.by_program
          /\ merged[m].red_max # thresholds.global.red_max
    /\ \E m \in 1..Len(merged) :
          /\ merged[m].program = NoProgram
          /\ \A j \in 1..Len(students) : students[j].student_id # merged[m].student_id
          /\ merged[m].red_max = thresholds.global.red_max

(***************************************************************************)
(* risk_snapshot_basic: app.py 110-136                                     *)
(***************************************************************************)
\* Longest table explored (besides the six-week tables of ExampleTables).
MaxBasicRows == 3

\* The run lengths lines 131-132 test.
RedRun == 2
YellowRun == 3

\* The two reason texts of lines 131-132.
RedReason == "RED>=2"
YellowReason == "YELLOW>=3"

StudentIds == {1, 2, 3}

BasicRow(sid, w, subj, ty, l) ==
    [student_id |-> sid, week |-> w, subject |-> subj, type |-> ty, light |-> l]

BasicRows ==
    {BasicRow(1, w, subj, "WEEKLY", l) :
        w \in {1, 2}, subj \in SUBJECTS, l \in {"RED", "YELLOW", "GREEN"}}
    \cup {BasicRow(1, 1, "BIOCHEM", "WEEKLY", "GRAY"),
          BasicRow(1, 2, "BIOCHEM", "MIDTERM", "RED"),
          BasicRow(2, 1, "BIOCHEM", "WEEKLY", "RED"),
          BasicRow(2, 2, "BIOCHEM", "WEEKLY", "RED")}

ExampleBands == <<"RED", "RED", "GREEN", "YELLOW", "YELLOW", "YELLOW">>

\* The weekly bands of the example for student 1, one subject, weeks 1..6, in
\* week order and in reverse week order; and with a green week in each run.
ExampleTables ==
    {[i \in 1..6 |-> BasicRow(1, i, "BIOCHEM", "WEEKLY", ExampleBands[i])],
     [i \in 1..6 |-> BasicRow(1, 7 - i, "BIOCHEM", "WEEKLY", ExampleBands[7 - i])],
     [i \in 1..6 |-> BasicRow(1, i, "BIOCHEM", "WEEKLY",
                              <<"RED", "GREEN", "RED", "YELLOW", "YELLOW", "GREEN">>[i])]}

UniqueKeys(t) == \A i, j \in 1..Len(t) : KeyOf(t[i]) = KeyOf(t[j]) => i = j

RemoveAt(s, i) == [k \in 1..(Len(s) - 1) |-> IF k < i THEN s[k] ELSE s[k + 1]]

RECURSIVE SortByStudentWeek(_)
\* Line 117: sort_values(["student_id","week"]), a stable lexicographic sort.
SortByStudentWeek(t) ==
    IF t = <<>> THEN <<>>
    ELSE LET before(a, b) == \/ a.student_id < b.student_id
                             \/ a.student_id = b.student_id /\ a.week < b.week
             i == CHOOSE k \in 1..Len(t) :
                      /\ \A j \in 1..Len(t) : ~before(t[j], t[k])
                      /\ \A j \in 1..(k - 1) : before(t[k], t[j])
         IN <<t[i]>> \o SortByStudentWeek(RemoveAt(t, i))

\* The loop body of lines 122-129 without the resets of the other counter.
scan_step_no_reset(c, val) ==
    LET cr == IF val = "RED" THEN c.cons_red + 1 ELSE c.cons_red
        cy == IF val = "YELLOW" THEN c.cons_yellow + 1 ELSE c.cons_yellow
    IN [cons_red |-> cr, cons_yellow |-> cy,
        max_red |-> IF cr > c.max_red THEN cr ELSE c.max_red,
        max_yellow |-> IF cy > c.max_yellow THEN cy ELSE c.max_yellow]

\* Lines 122-129: the body of the loop over the student's lights.
scan_step(c, val) ==
    LET cr == IF val = "RED" THEN c.cons_red + 1 ELSE 0
        cy == IF val = "YELLOW" THEN c.cons_yellow + 1 ELSE 0
    IN [cons_red |-> cr, cons_yellow |-> cy,
        max_red |-> IF cr > c.max_red THEN cr ELSE c.max_red,
        max_yellow |-> IF cy > c.max_yellow THEN cy ELSE c.max_yellow]

RECURSIVE scan(_, _)
\* Lines 120-129: the counters after the first n lights of s.
scan(s, n) ==
    IF n = 0
    THEN [cons_red |-> 0, cons_yellow |-> 0, max_red |-> 0, max_yellow |-> 0]
    ELSE scan_step(scan(s, n - 1), s[n])

\* Lines 118-133: risk_for; the "; "-joined text is kept as the sequence of
\* its parts, the empty text being <<>>.
risk_for(s) ==
    LET c == scan(s, Len(s))
    IN (IF c.max_red >= RedRun THEN <<RedReason>> ELSE <<>>)
       \o (IF c.max_yellow >= YellowRun THEN <<YellowReason>> ELSE <<>>)

\* Line 114 without the filter on type.
WeeklyOnlyNoFilter(t) == t

\* Line 114: merged[merged["type"]=="WEEKLY"].
WeeklyOnly(t) == SelectSeqIdx(t, [i \in 1..Len(t) |-> t[i].type = "WEEKLY"], 1)

\* The lights of one group of wk.groupby("student_id"), in the order of wk.
LightsOf(wk, sid) ==
    LET g == SelectSeqIdx(wk, [i \in 1..Len(wk) |-> wk[i].student_id = sid], 1)
    IN [i \in 1..Len(g) |-> g[i].light]

RECURSIVE RisksFrom(_, _)
\* Lines 134-135: one row per student of wk, in student_id order, the rows
\* with an empty reason removed.
RisksFrom(wk, sid) ==
    IF sid \notin StudentIds THEN <<>>
    ELSE (IF /\ \E i \in 1..Len(wk) : wk[i].student_id = sid
             /\ risk_for(LightsOf(wk, sid)) # <<>>
          THEN <<[student_id |-> sid, risk_reason |-> risk_for(LightsOf(wk, sid))]>>
          ELSE <<>>)
         \o RisksFrom(wk, sid + 1)

\* Lines 110-136.
risk_snapshot_basic(t) ==
    IF Len(t) = 0 THEN <<>>
    ELSE IF Len(WeeklyOnly(t)) = 0 THEN <<>>
    ELSE RisksFrom(SortByStudentWeek(WeeklyOnly(t)), 1)

BasicIdle == basicIn = <<>> /\ basicOut = <<>> /\ basicDone = FALSE

BasicInit ==
    /\ basicIn \in {t \in SeqsUpTo(BasicRows, MaxBasicRows) : UniqueKeys(t)}
                   \cup ExampleTables
    /\ basicOut = <<>>
    /\ basicDone = FALSE

\* Line 381: risk_basic = risk_snapshot_basic(merged).
RiskSnapshotBasic ==
    /\ ~basicDone
    /\ basicOut' = risk_snapshot_basic(basicIn)
    /\ basicDone' = TRUE
    /\ UNCHANGED basicIn

\* The student's WEEKLY rows as the function scans them, and their lights.
ScannedRows(sid) ==
    LET wk == SortByStudentWeek(WeeklyOnly(basicIn))
    IN SelectSeqIdx(wk, [i \in 1..Len(wk) |-> wk[i].student_id = sid], 1)

ScannedBands(sid) == [i \in 1..Len(ScannedRows(sid)) |-> ScannedRows(sid)[i].light]

\* The length of the longest run of `band` in s.
LongestRun(s, band) ==
    LET runs == {k \in 0..Len(s) :
                    \E i \in 1..(Len(s) - k + 1) :
                        \A j \in i..(i + k - 1) : s[j] = band}
    IN CHOOSE k \in runs : \A l \in runs : l <= k

\* C3: the scan goes through each student's WEEKLY rows in week order; a RED
\* increments the red counter and zeroes the yellow one, a YELLOW increments
\* the yellow counter and zeroes the red one, a GREEN or GRAY zeroes both; the
\* reason of a student holds the RED reason iff the longest RED run is >= 2
\* and the YELLOW reason iff the longest YELLOW run is >= 3; the student is in
\* the output iff a reason is present.
C3_ConsecutiveRuns ==
    basicDone =>
        \A sid \in StudentIds :
            LET rows == ScannedRows(sid)
                s == ScannedBands(sid)
                out == {i \in 1..Len(basicOut) : basicOut[i].student_id = sid}
                red == LongestRun(s, "RED") >= 2
                yellow == LongestRun(s, "YELLOW") >= 3
            IN /\ \A i \in 1..(Len(rows) - 1) : rows[i].week <= rows[i + 1].week
               /\ \A l \in {"RED", "YELLOW", "GREEN", "GRAY"} :
                     Cardinality({i \in 1..Len(rows) : rows[i].light = l})
                       = Cardinality({i \in 1..Len(basicIn) :
                                         /\ basicIn[i].student_id = sid
                                         /\ basicIn[i].type = "WEEKLY"
                                         /\ basicIn[i].light = l})
               /\ \A n \in 1..Len(s) :
                     LET a == scan(s, n - 1)
                         b == scan(s, n)
                     IN CASE s[n] = "RED" ->
                               b.cons_red = a.cons_red + 1 /\ b.cons_yellow = 0
                          [] s[n] = "YELLOW" ->
                               b.cons_yellow = a.cons_yellow + 1 /\ b.cons_red = 0
                          [] OTHER -> b.cons_red = 0 /\ b.cons_yellow = 0
               /\ Cardinality(out) <= 1
               /\ (out # {}) <=> (red \/ yellow)
               /\ \A i \in out :
                     LET parts == {basicOut[i].risk_reason[k] :
                                     k \in 1..Len(basicOut[i].risk_reason)}
                     IN /\ (RedReason \in parts) <=> red
                        /\ (YellowReason \in parts) <=> yellow

\* The example: a student with weekly bands RED, RED, GREEN, YELLOW, YELLOW,
\* YELLOW, handed in out of week order, is listed with both reasons.
C3_Witness ==
    /\ basicDone
    /\ Len(basicIn) = 6
    /\ basicIn[1].week > basicIn[2].week
    /\ ScannedBands(1) = ExampleBands
    /\ basicOut = <<[student_id |-> 1, risk_reason |-> <<RedReason, YellowReason>>]>>

(***************************************************************************)
(* window_any_subject_alert_AND: score_dashboard.py 180-241                *)
(***************************************************************************)
\* WEEKS_FULL = 1..18.
NumWeeks == 18
WEEKS_FULL == 1..NumWeeks

\* The sheet of the first student holds scores in a block of this many
\* consecutive weeks, at the start or at the end of the term.
MaxDataWeeks == 4

\* A week of the first student: no row (<<>>), or <<Biochem, MolBio>>.
WeekCells ==
    {<<>>, <<35, 75>>, <<65, 70>>, <<75, 40>>, <<35, NaN>>}

ScoreRow(id, w, b, m) == [ID |-> id, Week |-> w, Biochem |-> b, MolBio |-> m]

\* The rows of student 1 for the cells c placed from week off + 1 on.
BlockRows(c, off) ==
    FlattenSeq([k \in 1..Len(c) |->
        IF c[k] = <<>> THEN <<>> ELSE <<ScoreRow(1, off + k, c[k][1], c[k][2])>>])

\* The sheets of a second student: none, or two red Biochem weeks.
SecondStudent ==
    {<<>>, <<ScoreRow(2, 1, 35, 75), ScoreRow(2, 2, 35, 75)>>}

\* The sheets explored, sorted by (ID, Week) as line 92 leaves df.
ScoreSheets ==
    {BlockRows(c, off) \o t :
        c \in [1..MaxDataWeeks -> WeekCells],
        off \in {0, NumWeeks - MaxDataWeeks},
        t \in SecondStudent}

AlertParams ==
    {p \in [red_threshold : {40}, yellow_threshold : {70}, window_len : {2, 4},
            min_red : {1, 2}, min_total : {2, 4}] :
        <<p.min_red, p.min_total>> \in {<<2, 4>>, <<1, 2>>}}

\* Line 198: g.set_index("Week").reindex(WEEKS_FULL)[["Biochem","MolBio"]].
Reindexed(df, sid) ==
    [w \in WEEKS_FULL |->
        IF \E r \in 1..Len(df) : df[r].ID = sid /\ df[r].Week = w
        THEN LET r == CHOOSE r \in 1..Len(df) : df[r].ID = sid /\ df[r].Week = w
             IN [Biochem |-> df[r].Biochem, MolBio |-> df[r].MolBio]
        ELSE [Biochem |-> NaN, MolBio |-> NaN]]

\* Line 200: win_weeks = WEEKS_FULL[i:i+window_len].
WinWeeks(i, window_len) == (i + 1)..(i + window_len)

\* Line 199 with the last window left out.
WindowStartsShort(window_len) == 0..(NumWeeks - window_len - 1)

\* Line 199 starting at the second window.
WindowStartsFromOne(window_len) == 1..(NumWeeks - window_len)

\* Line 199: range(len(WEEKS_FULL) - window_len + 1).
WindowStarts(window_len) == 0..(NumWeeks - window_len)

\* Line 204 testing the Biochem column alone.
HasMissingBiochemOnly(g, weeks) == \E w \in weeks : g[w].Biochem = NaN

\* Line 204: sub.isna().any().any(), over both columns of the window.
HasMissing(g, weeks) ==
    \E w \in weeks : g[w].Biochem = NaN \/ g[w].MolBio = NaN

\* counts with a strict red comparison.
counts_strict(series, weeks, p) ==
    LET reds == Cardinality({w \in weeks : series[w] < p.red_threshold})
        yellows == Cardinality({w \in weeks : /\ series[w] > p.red_threshold
                                              /\ series[w] <= p.yellow_threshold})
    IN [reds |-> reds, yellows |-> yellows, total |-> reds + yellows]

\* Lines 207-211: counts(series).
counts(series, weeks, p) ==
    LET reds == Cardinality({w \in weeks : series[w] <= p.red_threshold})
        yellows == Cardinality({w \in weeks : /\ series[w] > p.red_threshold
                                              /\ series[w] <= p.yellow_threshold})
    IN [reds |-> reds, yellows |-> yellows, total |-> reds + yellows]

\* Lines 200-234: the rows (none or one) window i of student sid adds to out_rows.
\* A trigger text is kept as its subject and the two counts it prints.
WindowRows(df, sid, i, p) ==
    LET g == Reindexed(df, sid)
        weeks == WinWeeks(i, p.window_len)
        bio == counts([w \in weeks |-> g[w].Biochem], weeks, p)
        mol == counts([w \in weeks |-> g[w].MolBio], weeks, p)
        triggers ==
            (IF bio.reds >= p.min_red /\ bio.total >= p.min_total
             THEN <<[subject |-> "Biochem", reds |-> bio.reds, yellows |-> bio.yellows]>>
             ELSE <<>>)
            \o (IF mol.reds >= p.min_red /\ mol.total >= p.min_total
                THEN <<[subject |-> "MolBio", reds |-> mol.reds, yellows |-> mol.yellows]>>
                ELSE <<>>)
    IN IF HasMissing(g, weeks) THEN <<>>
       ELSE IF triggers = <<>> THEN <<>>
       ELSE <<[ID |-> sid,
               Weeks |-> <<i + 1, i + p.window_len>>,
               Biochem_scores |-> [k \in 1..p.window_len |-> g[i + k].Biochem],
               MolBio_scores |-> [k \in 1..p.window_len |-> g[i + k].MolBio],
               triggers |-> triggers,
               window_len |-> p.window_len]>>

RECURSIVE WindowLoop(_, _, _, _)
\* Lines 199-234: the loop over the window starts from i on.
WindowLoop(df, sid, i, p) ==
    IF i \notin WindowStarts(p.window_len) THEN <<>>
    ELSE WindowRows(df, sid, i, p) \o WindowLoop(df, sid, i + 1, p)

RECURSIVE StudentLoop(_, _, _)
\* Line 197: for sid, g in df_score.groupby("ID"), in ID order.
StudentLoop(df, sid, p) ==
    IF sid \notin StudentIds THEN <<>>
    ELSE (IF \E r \in 1..Len(df) : df[r].ID = sid
          THEN WindowLoop(df, sid, 0, p) ELSE <<>>)
         \o StudentLoop(df, sid + 1, p)

AlertKey(r) == <<r.ID, r.Weeks, r.triggers>>

\* Line 240: drop_duplicates(subset=["ID","Weeks","觸發條件"]), keeping the first.
DropDuplicateAlerts(rows) ==
    SelectSeqIdx(rows, [i \in 1..Len(rows) |->
                           \A j \in 1..(i - 1) : AlertKey(rows[j]) # AlertKey(rows[i])], 1)

\* Lines 193-241.
window_any_subject_alert_AND(df, p) ==
    IF Len(df) = 0 THEN <<>>
    ELSE DropDuplicateAlerts(StudentLoop(df, 1, p))

WindowIdle ==
    /\ df_score = <<>> /\ alert_df = <<>> /\ alertDone = FALSE
    /\ awParams = [red_threshold |-> 40, yellow_threshold |-> 60, window_len |-> 4,
                   min_red |-> 2, min_total |-> 4]

WindowInit ==
    /\ df_score \in ScoreSheets
    /\ awParams \in AlertParams
    /\ alert_df = <<>>
    /\ alertDone = FALSE

\* Lines 244-251: alert_df = window_any_subject_alert_AND(...).
WindowAlert ==
    /\ ~alertDone
    /\ alert_df' = window_any_subject_alert_AND(df_score, awParams)
    /\ alertDone' = TRUE
    /\ UNCHANGED <<df_score, awParams>>

\* The score of a student in a subject and week on the sheet, NaN when the
\* sheet has none.
ScoreAt(sid, subj, w) ==
    LET hit == {r \in 1..Len(df_score) : df_score[r].ID = sid /\ df_score[r].Week = w}
    IN IF hit = {} THEN NaN
       ELSE LET r == CHOOSE r \in hit : TRUE
            IN IF subj = "Biochem" THEN df_score[r].Biochem ELSE df_score[r].MolBio

WindowOf(i) == {w \in 1..18 : w >= i + 1 /\ w <= i + awParams.window_len}
AllStarts == {i \in 0..18 : i + awParams.window_len <= 18}
Subjects2 == {"Biochem", "MolBio"}

CompleteFor(sid, subj, i) == \A w \in WindowOf(i) : ScoreAt(sid, subj, w) # NaN

RedCount(sid, subj, i) ==
    Cardinality({w \in WindowOf(i) : ScoreAt(sid, subj, w) <= awParams.red_threshold})

YellowCount(sid, subj, i) ==
    Cardinality({w \in WindowOf(i) :
                    /\ ScoreAt(sid, subj, w) > awParams.red_threshold
                    /\ ScoreAt(sid, subj, w) <= awParams.yellow_threshold})

AndRule(sid, subj, i) ==
    /\ RedCount(sid, subj, i) >= awParams.min_red
    /\ RedCount(sid, subj, i) + YellowCount(sid, subj, i) >= awParams.min_total

\* The rows of the alert table for the window of student sid starting at i.
AlertRowsOf(sid, i) ==
    {k \in 1..Len(alert_df) :
        /\ alert_df[k].ID = sid
        /\ alert_df[k].Weeks = <<i + 1, i + awParams.window_len>>}

SubjectsIn(k) ==
    {alert_df[k].triggers[t].subject : t \in 1..Len(alert_df[k].triggers)}

Reported(sid, i, subj) == \E k \in AlertRowsOf(sid, i) : subj \in SubjectsIn(k)

\* C4: in every window the detector evaluates (no score of the window
\* missing), a subject is named as trigger iff redCount >= min_red and
\* redCount + yellowCount >= min_total, redCount counting the scores
\* <= red_threshold and yellowCount those in (red_threshold, yellow_threshold];
\* the counts printed are these.
C4_AndRule ==
    alertDone =>
        \A sid \in StudentIds : \A i \in AllStarts :
            (\A subj \in Subjects2 : CompleteFor(sid, subj, i)) =>
                \A subj \in Subjects2 :
                    /\ Reported(sid, i, subj) <=> AndRule(sid, subj, i)
                    /\ \A k \in AlertRowsOf(sid, i) :
                          \A t \in 1..Len(alert_df[k].triggers) :
                              alert_df[k].triggers[t].subject = subj =>
                                  /\ alert_df[k].triggers[t].reds = RedCount(sid, subj, i)
                                  /\ alert_df[k].triggers[t].yellows
                                        = YellowCount(sid, subj, i)

\* The example: red 40, yellow 70, min_red 2, min_total 4, Biochem scores
\* 35, 35, 65, 65 in weeks 1..4: the window is reported for Biochem.
C4_Witness ==
    /\ alertDone
    /\ awParams = [red_threshold |-> 40, yellow_threshold |-> 70, window_len |-> 4,
                   min_red |-> 2, min_total |-> 4]
    /\ <<ScoreAt(1, "Biochem", 1), ScoreAt(1, "Biochem", 2),
          ScoreAt(1, "Biochem", 3), ScoreAt(1, "Biochem", 4)>> = <<35, 35, 65, 65>>
    /\ Reported(1, 0, "Biochem")
    /\ ~Reported(1, 0, "MolBio")

\* C5 as claimed: a subject never triggers in a window where one of its own
\* scores is missing, and a window complete for a subject that satisfies the
\* AND rule there is reported for it, whatever the other subject holds.
C5_PerSubjectCompleteness ==
    alertDone =>
        \A sid \in StudentIds : \A i \in AllStarts : \A subj \in Subjects2 :
            /\ ~CompleteFor(sid, subj, i) => ~Reported(sid, i, subj)
            /\ (CompleteFor(sid, subj, i) /\ AndRule(sid, subj, i))
                   => Reported(sid, i, subj)

\* C5 amended: a window is evaluated exactly when every week of it has a
\* score for both subjects: a window with a missing score of either subject
\* has no row at all, and in a window complete for both, each subject that
\* satisfies the AND rule is reported, whether or not the other subject does.
C5_BothSubjectsComplete ==
    alertDone =>
        \A sid \in StudentIds : \A i \in AllStarts :
            /\ (\E subj \in Subjects2 : ~CompleteFor(sid, subj, i))
                   => AlertRowsOf(sid, i) = {}
            /\ (\A subj \in Subjects2 : CompleteFor(sid, subj, i)) =>
                   \A subj \in Subjects2 :
                       AndRule(sid, subj, i) => Reported(sid, i, subj)

\* A window complete for Biochem that satisfies the AND rule there has no row
\* because a MolBio score is missing, while another window of the sheet,
\* complete for both subjects, is reported for one subject alone.
C5_Witness ==
    /\ alertDone
    /\ \E i \in AllStarts :
          /\ CompleteFor(1, "Biochem", i) /\ AndRule(1, "Biochem", i)
          /\ ~CompleteFor(1, "MolBio", i)
          /\ AlertRowsOf(1, i) = {}
    /\ \E i \in AllStarts :
          /\ Reported(1, i, "MolBio") /\ ~Reported(1, i, "Biochem")

\* A window triggers when the detector evaluates it and a subject satisfies
\* the AND rule in it.
Triggers(sid, i) ==
    /\ \A subj \in Subjects2 : CompleteFor(sid, subj, i)
    /\ \E subj \in Subjects2 : AndRule(sid, subj, i)

\* C6: for every student and every window start 0..18-W, a window that
\* triggers has a row in the output, the first triggering window or not; no
\* student without a triggering window has a row; no two rows share student,
\* window and a triggering subject.
C6_AllWindowsReported ==
    alertDone =>
        /\ \A sid \in StudentIds : \A i \in AllStarts :
              Triggers(sid, i) <=> AlertRowsOf(sid, i) # {}
        /\ \A k \in 1..Len(alert_df) :
              \E i \in AllStarts : k \in AlertRowsOf(alert_df[k].ID, i)
        /\ \A k, l \in 1..Len(alert_df) :
              (/\ alert_df[k].ID = alert_df[l].ID
               /\ alert_df[k].Weeks = alert_df[l].Weeks
               /\ SubjectsIn(k) \cap SubjectsIn(l) # {}) => k = l

\* One student has two overlapping triggering windows, both reported, the
\* second being the last window of the term.
C6_Witness ==
    /\ alertDone
    /\ \E i \in AllStarts :
          /\ i + 1 \in AllStarts /\ i + 2 \notin AllStarts
          /\ AlertRowsOf(1, i) # {} /\ AlertRowsOf(1, i + 1) # {}

(***************************************************************************)
(* risk_snapshot_advanced: app.py 138-177                                  *)
(***************************************************************************)
\* Longest table explored.
MaxAdvRows == 4

AdvRow(sid, subj, ty, sc, y) ==
    [student_id |-> sid, subject |-> subj, type |-> ty, raw_score |-> sc,
     yellow_max |-> y]

\* Student 1 is under the global pair; student 2 under a program override
\* whose yellow_max (9) no weekly mean reaches.
AdvRows ==
    {AdvRow(1, "BIOCHEM", "WEEKLY", sc, 3) : sc \in {1, 5, NaN}}
    \cup {AdvRow(1, "MOLBIO", "WEEKLY", sc, 3) : sc \in {3, 5}}
    \cup {AdvRow(1, "BIOCHEM", "MIDTERM", sc, 3) : sc \in {1, 2}}
    \cup {AdvRow(1, "MOLBIO", "MIDTERM", NaN, 3),
          AdvRow(1, "BIOCHEM", "FINAL", 1, 3),
          AdvRow(2, "BIOCHEM", "WEEKLY", 5, 9),
          AdvRow(2, "BIOCHEM", "MIDTERM", 1, 9)}

AdvThresholds ==
    {[global |-> Pair(1, 3),
      by_program |-> [p \in {"P1"} |-> Pair(4, 9)],
      advanced |-> [mid_low |-> 2, final_low |-> 2, cross_gap |-> 2]]}

\* The three reason texts of lines 168, 171 and 173.
MidReason == "MID"
FinalReason == "FINAL"
CrossReason == "CROSS"

RECURSIVE MeanOf(_)
\* Series.mean() with NaN skipped, kept exact as the sum and the count of the
\* values present; n = 0 is a NaN mean.
MeanOf(s) ==
    IF s = <<>> THEN [sum |-> 0, n |-> 0]
    ELSE LET m == MeanOf(Tail(s))
         IN IF Head(s) = NaN THEN m ELSE [sum |-> m.sum + Head(s), n |-> m.n + 1]

\* The raw_score column of the rows of t with the given student, the type ty
\* and a subject in subjs.
ScoresOf(t, sid, ty, subjs) ==
    LET g == SelectSeqIdx(t, [i \in 1..Len(t) |->
                                 /\ t[i].student_id = sid
                                 /\ t[i].type = ty
                                 /\ t[i].subject \in subjs], 1)
    IN [i \in 1..Len(g) |-> g[i].raw_score]

\* Lines 150-162: the row of df for a student of the weekly_mean index.
AdvStats(t, sid) ==
    [weekly_mean |-> MeanOf(ScoresOf(t, sid, "WEEKLY", SUBJECTS)),
     mid_mean    |-> MeanOf(ScoresOf(t, sid, "MIDTERM", SUBJECTS)),
     final_mean  |-> MeanOf(ScoresOf(t, sid, "FINAL", SUBJECTS)),
     biochem     |-> MeanOf(ScoresOf(t, sid, "WEEKLY", {"BIOCHEM"})),
     molbio      |-> MeanOf(ScoresOf(t, sid, "WEEKLY", {"MOLBIO"}))]

notna(m) == m.n > 0
\* mean >= v and mean < v for a mean that is present.
MeanGe(m, v) == m.sum >= v * m.n
MeanLt(m, v) == m.sum < v * m.n
\* |a - b| >= v for two means that are present.
GapGe(a, b, v) ==
    LET d == a.sum * b.n - b.sum * a.n
    IN (IF d < 0 THEN 0 - d ELSE d) >= v * a.n * b.n

\* reason with the weekly mean compared strictly (> yellow_max).
reason_strict(row, th) ==
    LET g_yellow == th.global.yellow_max
        strictGe(m, v) == m.sum > v * m.n
    IN (IF /\ notna(row.weekly_mean) /\ notna(row.mid_mean)
           /\ strictGe(row.weekly_mean, g_yellow)
           /\ MeanLt(row.mid_mean, th.advanced.mid_low)
        THEN <<MidReason>> ELSE <<>>)
       \o (IF /\ notna(row.weekly_mean) /\ notna(row.final_mean)
              /\ strictGe(row.weekly_mean, g_yellow)
              /\ MeanLt(row.final_mean, th.advanced.final_low)
           THEN <<FinalReason>> ELSE <<>>)
       \o (IF /\ notna(row.biochem) /\ notna(row.molbio)
              /\ GapGe(row.biochem, row.molbio, th.advanced.cross_gap)
           THEN <<CrossReason>> ELSE <<>>)

\* Lines 145-148 and 164-174: reason(row).
reason(row, th) ==
    LET g_yellow == th.global.yellow_max
    IN (IF /\ notna(row.weekly_mean) /\ notna(row.mid_mean)
           /\ MeanGe(row.weekly_mean, g_yellow)
           /\ MeanLt(row.mid_mean, th.advanced.mid_low)
        THEN <<MidReason>> ELSE <<>>)
       \o (IF /\ notna(row.weekly_mean) /\ notna(row.final_mean)
              /\ MeanGe(row.weekly_mean, g_yellow)
              /\ MeanLt(row.final_mean, th.advanced.final_low)
           THEN <<FinalReason>> ELSE <<>>)
       \o (IF /\ notna(row.biochem) /\ notna(row.molbio)
              /\ GapGe(row.biochem, row.molbio, th.advanced.cross_gap)
           THEN <<CrossReason>> ELSE <<>>)

RECURSIVE AdvFrom(_, _, _)
\* Lines 161 and 175-176: one row per student with a WEEKLY row (the index of
\* weekly_mean, which the join keeps), in student_id order, the rows with an
\* empty reason removed.
AdvFrom(t, sid, th) ==
    IF sid \notin StudentIds THEN <<>>
    ELSE (IF /\ \E i \in 1..Len(t) : t[i].student_id = sid /\ t[i].type = "WEEKLY"
             /\ reason(AdvStats(t, sid), th) # <<>>
          THEN <<[student_id |-> sid, adv_reason |-> reason(AdvStats(t, sid), th)]>>
          ELSE <<>>)
         \o AdvFrom(t, sid + 1, th)

\* Lines 138-177.
risk_snapshot_advanced(t, th) ==
    IF Len(t) = 0 THEN <<>> ELSE AdvFrom(t, 1, th)

AdvIdle ==
    /\ advIn = <<>> /\ advOut = <<>> /\ advDone = FALSE
    /\ advTh = [global |-> Pair(40, 70), by_program |-> <<>>,
                advanced |-> [mid_low |-> 60, final_low |-> 60, cross_gap |-> 20]]

AdvInit ==
    /\ advIn \in SeqsUpTo(AdvRows, MaxAdvRows)
    /\ advTh \in AdvThresholds
    /\ advOut = <<>>
    /\ advDone = FALSE

\* Line 389: risk_adv = risk_snapshot_advanced(merged, thresholds).
RiskSnapshotAdvanced ==
    /\ ~advDone
    /\ advOut' = risk_snapshot_advanced(advIn, advTh)
    /\ advDone' = TRUE
    /\ UNCHANGED <<advIn, advTh>>

RECURSIVE SumOver(_)
\* The sum of the raw scores of the rows of advIn at the indices in I.
SumOver(I) ==
    IF I = {} THEN 0
    ELSE LET i == CHOOSE i \in I : TRUE
         IN advIn[i].raw_score + SumOver(I \ {i})

\* The rows of a student with a score, by type and subject.
Scored(sid, ty, subjs) ==
    {i \in 1..Len(advIn) :
        /\ advIn[i].student_id = sid /\ advIn[i].type = ty
        /\ advIn[i].subject \in subjs /\ advIn[i].raw_score # NaN}

Both == {"BIOCHEM", "MOLBIO"}

\* The three conditions, a mean being the sum over the count of the scores
\* present, and missing when there is none.
MidGap(sid) ==
    LET w == Scored(sid, "WEEKLY", Both)
        m == Scored(sid, "MIDTERM", Both)
    IN /\ w # {} /\ m # {}
       /\ SumOver(w) >= advTh.global.yellow_max * Cardinality(w)
       /\ SumOver(m) < advTh.advanced.mid_low * Cardinality(m)

FinalGap(sid) ==
    LET w == Scored(sid, "WEEKLY", Both)
        f == Scored(sid, "FINAL", Both)
    IN /\ w # {} /\ f # {}
       /\ SumOver(w) >= advTh.global.yellow_max * Cardinality(w)
       /\ SumOver(f) < advTh.advanced.final_low * Cardinality(f)

CrossGap(sid) ==
    LET b == Scored(sid, "WEEKLY", {"BIOCHEM"})
        m == Scored(sid, "WEEKLY", {"MOLBIO"})
        d == SumOver(b) * Cardinality(m) - SumOver(m) * Cardinality(b)
    IN /\ b # {} /\ m # {}
       /\ (d >= advTh.advanced.cross_gap * Cardinality(b) * Cardinality(m)
           \/ 0 - d >= advTh.advanced.cross_gap * Cardinality(b) * Cardinality(m))

\* C7: a student is listed iff one of the three conditions holds; a condition
\* with a missing operand does not hold; the weekly mean is compared with the
\* global yellow_max whatever yellow_max the student's rows carry; the reason
\* lists exactly the conditions that hold, in order.
C7_Divergence ==
    advDone =>
        \A sid \in StudentIds :
            LET out == {k \in 1..Len(advOut) : advOut[k].student_id = sid}
                want == (IF MidGap(sid) THEN <<MidReason>> ELSE <<>>)
                        \o (IF FinalGap(sid) THEN <<FinalReason>> ELSE <<>>)
                        \o (IF CrossGap(sid) THEN <<CrossReason>> ELSE <<>>)
            IN /\ Cardinality(out) <= 1
               /\ (out # {}) <=> (MidGap(sid) \/ FinalGap(sid) \/ CrossGap(sid))
               /\ \A k \in out : advOut[k].adv_reason = want

\* A student under a program override with a higher yellow_max is listed for
\* the midterm gap (weekly mean 5 >= global 3, midterm mean 1 < 2), next to a
\* student whose midterm mean is missing and who is listed for the subject
\* gap alone.
C7_Witness ==
    /\ advDone
    /\ \E k \in 1..Len(advOut) :
          /\ advOut[k].student_id = 2
          /\ advOut[k].adv_reason = <<MidReason>>
          /\ \E i \in 1..Len(advIn) :
                /\ advIn[i].student_id = 2
                /\ advIn[i].yellow_max > advTh.global.yellow_max
    /\ \E k \in 1..Len(advOut) :
          /\ advOut[k].student_id = 1
          /\ advOut[k].adv_reason = <<CrossReason>>
          /\ Scored(1, "MIDTERM", Both) = {}

(***************************************************************************)
(* generate_anon_map: app.py 202-218                                       *)
(***************************************************************************)
\* Longest roster handed to one call, and the most rows anon_map.csv is let
\* grow to.
MaxRoster == 3
MaxAliases == 6

\* Lines 210-214: the rows the loop appends for the student ids ids[k..] of
\* the roster, the next alias number being next_idx.  `existing` is the set
\* read from the file before the loop; the loop does not add to it.
RECURSIVE NewAliasRows(_, _, _, _)
NewAliasRows(ids, k, existing, next_idx) ==
    IF k > Len(ids) THEN <<>>
    ELSE IF ids[k] \notin existing
         THEN <<[student_id |-> ids[k], anon_id |-> next_idx]>>
              \o NewAliasRows(ids, k + 1, existing, next_idx + 1)
         ELSE NewAliasRows(ids, k + 1, existing, next_idx)

\* Lines 202-218: the map after a call on a roster with the student ids `ids`.
\* The alias S0001, S0002, ... is kept as its number.
generate_anon_map(amap, ids) ==
    LET existing == {amap[i].student_id : i \in 1..Len(amap)}
        rows == NewAliasRows(ids, 1, existing, Len(amap) + 1)
    IN amap \o rows

AnonIdle == anon_map = <<>> /\ assigned = {}

AnonInit == anon_map = <<>> /\ assigned = {}

\* Line 223: amap = generate_anon_map(students_df), on any roster.
GenerateAnonMap ==
    \E ids \in SeqsUpTo(StudentIds, MaxRoster) :
        /\ Len(anon_map) + Len(ids) <= MaxAliases
        /\ anon_map' = generate_anon_map(anon_map, ids)
        /\ assigned' = assigned \cup
               {<<anon_map'[i].student_id, anon_map'[i].anon_id>> :
                   i \in 1..Len(anon_map')}

\* C10: the alias map is append-only and injective: every student id has at
\* most one alias, an alias once assigned to a student never changes or
\* disappears, and no alias is assigned to two different student ids.
C10_AliasMapInjective ==
    /\ \A i, j \in 1..Len(anon_map) :
          anon_map[i].student_id = anon_map[j].student_id
              => anon_map[i].anon_id = anon_map[j].anon_id
    /\ \A pr \in assigned :
          \E i \in 1..Len(anon_map) :
              anon_map[i].student_id = pr[1] /\ anon_map[i].anon_id = pr[2]
    /\ \A i, j \in 1..Len(anon_map) :
          anon_map[i].anon_id = anon_map[j].anon_id
              => anon_map[i].student_id = anon_map[j].student_id

(***************************************************************************)
(* risk_snapshot_basic over the rows of two subjects: app.py 113-134       *)
(***************************************************************************)
\* The tables that hold the rows of t in another order.
Reordered(t) ==
    {[i \in 1..Len(t) |-> t[f[i]]] : f \in Permutations(1..Len(t))}

\* The week numbers in which the student has a RED WEEKLY row in the table
\* handed in.
RedWeeks(sid) ==
    {basicIn[i].week : i \in {j \in 1..Len(basicIn) :
                                 /\ basicIn[j].student_id = sid
                                 /\ basicIn[j].type = "WEEKLY"
                                 /\ basicIn[j].light = "RED"}}

HasReason(row, r) == \E k \in 1..Len(row.risk_reason) : row.risk_reason[k] = r

\* C13: the RED reason is reported for a student only if the student has RED
\* weekly rows in at least two different weeks, and the table returned is the
\* same for every order of the rows handed in (so for every order of the rows
\* of one student and week).
C13_RedWeeksAndOrder ==
    basicDone =>
        /\ \A k \in 1..Len(basicOut) :
              HasReason(basicOut[k], RedReason)
                  => Cardinality(RedWeeks(basicOut[k].student_id)) >= 2
        /\ \A u \in Reordered(basicIn) : risk_snapshot_basic(u) = basicOut

(***************************************************************************)
(* apply_thresholds row for row: app.py 67-89                              *)
(***************************************************************************)
\* The score columns of a row.
ScoreColumns(r) ==
    [student_id |-> r.student_id, week |-> r.week, subject |-> r.subject,
     type |-> r.type, raw_score |-> r.raw_score]

\* How many rows of the table t carry the score columns v.
Occurrences(t, v) == Cardinality({i \in 1..Len(t) : ScoreColumns(t[i]) = v})

\* C14: for every score table and roster the table apply_thresholds returns
\* holds each score record exactly as often as the score table does (its
\* student_id, week, subject, type and raw_score unchanged): no record is
\* dropped and none is duplicated.
C14_OneRowPerScoreRecord ==
    lightDone =>
        /\ Len(merged) = Len(scores)
        /\ \A v \in {ScoreColumns(scores[i]) : i \in 1..Len(scores)}
                 \cup {ScoreColumns(merged[i]) : i \in 1..Len(merged)} :
              Occurrences(merged, v) = Occurrences(scores, v)

(***************************************************************************)
(* The detectors on empty input: app.py 346-394, score_dashboard.py 148-251 *)
(***************************************************************************)
\* Longest score table and roster the dashboard page is rendered on.
MaxPageRows == 2

PageScoreRows ==
    [student_id : {1, 2}, week : {1}, subject : {"BIOCHEM"},
     type : ASSESS_TYPES, raw_score : {NaN, 1, 3}]

PageRoster == <<[student_id |-> 1, program |-> "P1"]>>

PageThresholds ==
    [global |-> Pair(1, 3), by_program |-> <<>>,
     advanced |-> [mid_low |-> 2, final_low |-> 2, cross_gap |-> 2]]

\* Line 79: the branch apply_thresholds takes, by the line it starts on.
apply_thresholds_branch(sc, st) ==
    IF Len(LeftMerge(sc, st)) > 0 THEN 80 ELSE 83

RECURSIVE StackFrom(_, _)
\* Lines 94-99: one row per week of merged, in week order, with the number of
\* scored rows of each light.
StackFrom(m, w) ==
    IF w > MaxWeek THEN <<>>
    ELSE LET n(l) == Cardinality({i \in 1..Len(m) :
                         m[i].week = w /\ m[i].light = l /\ m[i].raw_score # NaN})
         IN (IF \E i \in 1..Len(m) : m[i].week = w
             THEN <<[week |-> w, RED |-> n("RED"), YELLOW |-> n("YELLOW"),
                     GREEN |-> n("GREEN")]>>
             ELSE <<>>)
            \o StackFrom(m, w + 1)

\* Lines 91-99.
weekly_stack(m) == IF Len(m) = 0 THEN <<>> ELSE StackFrom(m, MinWeek)

\* The return statement weekly_stack leaves by.
weekly_stack_return(m) == IF Len(m) = 0 THEN 93 ELSE 99

RECURSIVE ScatterFrom(_, _)
\* Lines 105-107: one row per student whose MIDTERM mean and FINAL mean are
\* both present, in student_id order.
ScatterFrom(m, sid) ==
    IF sid \notin StudentIds THEN <<>>
    ELSE LET mid == MeanOf(ScoresOf(m, sid, "MIDTERM", SUBJECTS))
             fin == MeanOf(ScoresOf(m, sid, "FINAL", SUBJECTS))
         IN (IF notna(mid) /\ notna(fin)
             THEN <<[student_id |-> sid, midterm |-> mid, final |-> fin]>>
             ELSE <<>>)
            \o ScatterFrom(m, sid + 1)

\* Lines 101-108.
mid_final_scatter(m) == IF Len(m) = 0 THEN <<>> ELSE ScatterFrom(m, 1)

mid_final_scatter_return(m) == IF Len(m) = 0 THEN 103 ELSE 108

\* The return statement risk_snapshot_basic leaves by.
risk_snapshot_basic_return(t) ==
    IF Len(t) = 0 THEN 112
    ELSE IF Len(WeeklyOnly(t)) = 0 THEN 116 ELSE 136

\* The return statement risk_snapshot_advanced leaves by.
risk_snapshot_advanced_return(t) == IF Len(t) = 0 THEN 144 ELSE 177

\* The return statement window_any_subject_alert_AND leaves by.
window_alert_return(df, p) ==
    IF Len(df) = 0 THEN 195
    ELSE IF StudentLoop(df, 1, p) = <<>> THEN 237 ELSE 241

\* Two rows of one student for one week.
HasDuplicateIdWeek(df) ==
    \E i, j \in 1..Len(df) :
        i # j /\ df[i].ID = df[j].ID /\ df[i].Week = df[j].Week

\* Line 198: reindex raises on a Week index with a repeated label.
ReindexRaises(df) == HasDuplicateIdWeek(df)

\* Sheets in which student 1 has two rows for week 1.
DuplicateSheets ==
    {<<ScoreRow(1, 1, 35, 75), ScoreRow(1, 1, b, 75)>> : b \in {35, 65}}

PageIdle ==
    /\ called = "" /\ arg = <<>> /\ result = <<>>
    /\ raised = FALSE /\ returnedAt = 0

\* Line 346: merged = apply_thresholds(scores, thresholds, students).
CallApplyThresholds ==
    /\ called = ""
    /\ \E sc \in SeqsUpTo(PageScoreRows, MaxPageRows),
       st \in {<<>>, PageRoster} :
        /\ called' = "apply_thresholds"
        /\ arg' = <<sc, st>>
        /\ result' = apply_thresholds(sc, PageThresholds, st)
        /\ raised' = FALSE
        /\ returnedAt' = apply_thresholds_branch(sc, st)

\* Line 364: stack = weekly_stack(merged).
CallWeeklyStack ==
    /\ called = ""
    /\ \E sc \in SeqsUpTo(PageScoreRows, MaxPageRows) :
        LET m == apply_thresholds(sc, PageThresholds, PageRoster)
        IN /\ called' = "weekly_stack"
           /\ arg' = m
           /\ result' = weekly_stack(m)
           /\ raised' = FALSE
           /\ returnedAt' = weekly_stack_return(m)

\* Line 372: scat = mid_final_scatter(merged).
CallMidFinalScatter ==
    /\ called = ""
    /\ \E sc \in SeqsUpTo(PageScoreRows, MaxPageRows) :
        LET m == apply_thresholds(sc, PageThresholds, PageRoster)
        IN /\ called' = "mid_final_scatter"
           /\ arg' = m
           /\ result' = mid_final_scatter(m)
           /\ raised' = FALSE
           /\ returnedAt' = mid_final_scatter_return(m)

\* Line 381: risk_basic = risk_snapshot_basic(merged).
CallRiskSnapshotBasic ==
    /\ called = ""
    /\ \E sc \in SeqsUpTo(PageScoreRows, MaxPageRows) :
        LET m == apply_thresholds(sc, PageThresholds, PageRoster)
        IN /\ called' = "risk_snapshot_basic"
           /\ arg' = m
           /\ result' = risk_snapshot_basic(m)
           /\ raised' = FALSE
           /\ returnedAt' = risk_snapshot_basic_return(m)

\* Line 389: risk_adv = risk_snapshot_advanced(merged, thresholds).
CallRiskSnapshotAdvanced ==
    /\ called = ""
    /\ \E sc \in SeqsUpTo(PageScoreRows, MaxPageRows) :
        LET m == apply_thresholds(sc, PageThresholds, PageRoster)
        IN /\ called' = "risk_snapshot_advanced"
           /\ arg' = m
           /\ result' = risk_snapshot_advanced(m, PageThresholds)
           /\ raised' = FALSE
           /\ returnedAt' = risk_snapshot_advanced_return(m)

\* score_dashboard.py 155-156 and 244-251: make_pivot (df.pivot, line 148)
\* raises on a sheet with two rows of one student for one week and the script
\* stops there; otherwise the detector is called on the same sheet.
CallWindowAlert ==
    /\ called = ""
    /\ \E df \in ScoreSheets \cup DuplicateSheets, p \in AlertParams :
        /\ arg' = <<df, p>>
        /\ IF HasDuplicateIdWeek(df)
           THEN /\ called' = "make_pivot"
                /\ result' = <<>>
                /\ raised' = TRUE
                /\ returnedAt' = 0
           ELSE /\ called' = "window_any_subject_alert_AND"
                /\ result' = window_any_subject_alert_AND(df, p)
                /\ raised' = ReindexRaises(df)
                /\ returnedAt' = window_alert_return(df, p)

PageNext ==
    \/ CallApplyThresholds
    \/ CallWeeklyStack
    \/ CallMidFinalScatter
    \/ CallRiskSnapshotBasic
    \/ CallRiskSnapshotAdvanced
    \/ CallWindowAlert

\* The sheet handed to the detector holds no window of window_len weeks in
\* which some student has both scores every week.
NoCompleteWindow(df, p) ==
    \A sid \in StudentIds : \A i \in 0..(NumWeeks - p.window_len) :
        \E w \in (i + 1)..(i + p.window_len) :
            \A r \in 1..Len(df) :
                df[r].ID = sid /\ df[r].Week = w
                    => df[r].Biochem = NaN \/ df[r].MolBio = NaN

NoRowsOfType(m, ty) == \A i \in 1..Len(m) : m[i].type # ty

\* C11: on empty input (no score records; no WEEKLY records for
\* risk_snapshot_basic; no complete window for the AND-rule detector) each of
\* the six functions returns a table of zero rows, leaves by the return (or
\* branch) that runs no aggregation, and raises no error.
C11_EmptyInputEmptyResult ==
    /\ called = "apply_thresholds" /\ arg[1] = <<>>
          => result = <<>> /\ ~raised /\ returnedAt = 83
    /\ called = "weekly_stack" /\ arg = <<>>
          => result = <<>> /\ ~raised /\ returnedAt = 93
    /\ called = "mid_final_scatter" /\ arg = <<>>
          => result = <<>> /\ ~raised /\ returnedAt = 103
    /\ called = "risk_snapshot_basic" /\ NoRowsOfType(arg, "WEEKLY")
          => result = <<>> /\ ~raised /\ returnedAt \in {112, 116}
    /\ called = "risk_snapshot_advanced" /\ arg = <<>>
          => result = <<>> /\ ~raised /\ returnedAt = 144
    /\ called = "window_any_subject_alert_AND" /\ NoCompleteWindow(arg[1], arg[2])
          => result = <<>> /\ ~raised /\ returnedAt \in {195, 237}

\* risk_snapshot_basic was called on a table of MIDTERM rows alone and
\* returned no rows by line 116.
C11_Witness ==
    /\ called = "risk_snapshot_basic"
    /\ Len(arg) = 2
    /\ NoRowsOfType(arg, "WEEKLY")
    /\ arg[1].light = "RED" /\ arg[2].light = "RED"
    /\ result = <<>>
    /\ returnedAt = 116

(***************************************************************************)
(* One score under the three classifiers: app.py 58-65,                    *)
(* score_dashboard.py 159-171 and 207-211                                  *)
(***************************************************************************)
\* The three cell styles of lines 167, 169 and 171.
RedStyle == "background-color: #f8d7da;"
YellowStyle == "background-color: #fff3cd;"
GreenStyle == "background-color: #d4edda;"

\* color_cell with a strict red comparison.
color_cell_strict(v, red_th, yellow_th) ==
    IF v = NaN THEN ""
    ELSE IF v < red_th THEN RedStyle
    ELSE IF v <= yellow_th THEN YellowStyle
    ELSE GreenStyle

\* Lines 159-171: color_cell(v) under the sidebar's red_th and yellow_th.  A
\* blank cell (pd.NA) takes the except branch; float(v) of a number is the
\* number.
color_cell(v, red_th, yellow_th) ==
    IF v = NaN THEN ""
    ELSE IF v <= red_th THEN RedStyle
    ELSE IF v <= yellow_th THEN YellowStyle
    ELSE GreenStyle

\* Lines 207-211 on a series holding the one score s.
counts_one(s, red_th, yellow_th) ==
    counts([w \in {1} |-> s], {1},
           [red_threshold |-> red_th, yellow_threshold |-> yellow_th])

BandIdle ==
    /\ bdScore = 0 /\ bdRed = 0 /\ bdYellow = 0
    /\ bdLight = "" /\ bdCount = <<>> /\ bdStyle = "" /\ bdDone = FALSE

BandInit ==
    /\ bdScore \in ScoreValues
    /\ bdRed \in ThresholdValues
    /\ bdYellow \in ThresholdValues
    /\ bdLight = "" /\ bdCount = <<>> /\ bdStyle = "" /\ bdDone = FALSE

\* The score classified by color_light, counted by the detector and coloured
\* by color_cell, under one threshold pair.
ClassifyThrice ==
    /\ ~bdDone
    /\ bdLight' = color_light(bdScore, bdRed, bdYellow)
    /\ bdCount' = counts_one(bdScore, bdRed, bdYellow)
    /\ bdStyle' = color_cell(bdScore, bdRed, bdYellow)
    /\ bdDone' = TRUE
    /\ UNCHANGED <<bdScore, bdRed, bdYellow>>

\* The band a detector count (of one score) and a cell style stand for.
BandOfCount(c) ==
    IF c.reds = 1 THEN "RED" ELSE IF c.yellows = 1 THEN "YELLOW" ELSE "GREEN"

BandOfStyle(st) ==
    IF st = RedStyle THEN "RED"
    ELSE IF st = YellowStyle THEN "YELLOW"
    ELSE IF st = GreenStyle THEN "GREEN"
    ELSE "GRAY"

MaxWindowLen == 19

\* Sheets of student 1 with the same two scores in each of the weeks 1..n.
FilledSheet(b, m, n) == [w \in 1..n |-> ScoreRow(1, w, b, m)]

LenSheets ==
    {FilledSheet(c[1], c[2], n) :
        c \in {<<35, 35>>, <<35, 75>>, <<65, 35>>}, n \in {3, NumWeeks}}

\* Lines 34-48: min_red, min_total and win_len are set apart from each other.
LenParams ==
    [red_threshold : {40}, yellow_threshold : {70}, window_len : 2..MaxWindowLen,
     min_red : {1, 2}, min_total : {2, 4}]

\* Lines 199-200: the windows the loop goes through, each as its set of weeks.
VisitedWindows(window_len) ==
    {WinWeeks(i, window_len) : i \in WindowStarts(window_len)}

LenIdle ==
    /\ wlSheet = <<>> /\ wlAlerts = <<>> /\ wlVisited = {} /\ wlDone = FALSE
    /\ wlParams = [red_threshold |-> 40, yellow_threshold |-> 60, window_len |-> 4,
                   min_red |-> 2, min_total |-> 4]

LenInit ==
    /\ wlSheet \in LenSheets
    /\ wlParams \in LenParams
    /\ wlAlerts = <<>> /\ wlVisited = {} /\ wlDone = FALSE

\* Lines 244-251 under any window length; wlVisited records the windows the
\* loop of lines 199-200 went through.
WindowAlertAnyLen ==
    /\ ~wlDone
    /\ wlAlerts' = window_any_subject_alert_AND(wlSheet, wlParams)
    /\ wlVisited' = VisitedWindows(wlParams.window_len)
    /\ wlDone' = TRUE
    /\ UNCHANGED <<wlSheet, wlParams>>

\* The sets of W consecutive weeks that lie within the term.
ConsecutiveWeeks(W) ==
    {a..(a + W - 1) : a \in {b \in 1..NumWeeks : b + W - 1 <= NumWeeks}}

\* C15: with window_len < min_total the detector returns no alert row
\* whatever the sheet; and for every window_len the windows it goes through
\* are exactly the runs of window_len consecutive weeks within 1..18, which
\* are 18 - window_len + 1 in number and none when window_len > 18; every
\* alert row is about one of them.
C15_WindowLenAndWindows ==
    wlDone =>
        LET W == wlParams.window_len
        IN /\ W < wlParams.min_total => wlAlerts = <<>>
           /\ wlVisited = ConsecutiveWeeks(W)
           /\ Cardinality(wlVisited) = IF W > NumWeeks THEN 0 ELSE NumWeeks - W + 1
           /\ \A k \in 1..Len(wlAlerts) :
                 (wlAlerts[k].Weeks[1])..(wlAlerts[k].Weeks[2]) \in wlVisited

\* The detector ran with window_len 2 < min_total 4 on a sheet that is red in
\* both subjects every week, and with the same window length under
\* min_total 2 every one of the 17 windows is reported.
C15_Witness ==
    /\ wlDone
    /\ wlParams.window_len = 2
    /\ wlParams.min_total = 4
    /\ wlParams.min_red = 2
    /\ wlSheet = FilledSheet(35, 35, NumWeeks)
    /\ wlAlerts = <<>>
    /\ Len(window_any_subject_alert_AND(wlSheet,
              [wlParams EXCEPT !.min_total = 2])) = NumWeeks - 1

(***************************************************************************)
(* Two sessions in the upsert block: app.py 280-291, save_csv 29-31        *)
(***************************************************************************)
\* Each session of the app runs the script on its own; the two sessions here
\* are past line 278 with their valid rows in new_scores.
Sessions == {1, 2}

\* Longest new_scores of a session.
MaxSessionRows == 1

\* Session s uploads rows of student s alone, so the two uploads share no key.
SessionRows(s) ==
    [student_id : {s}, week : {1, 2}, subject : {"BIOCHEM"},
     type : {"WEEKLY"}, raw_score : {35, 80}]

\* What scores_master.csv holds before the two uploads: nothing, or a record
\* of a third student.
StoredBefore ==
    {<<>>, <<[student_id |-> 3, week |-> 1, subject |-> "BIOCHEM",
              type |-> "WEEKLY", raw_score |-> 35]>>}

\* Line 287: the rows of master whose key is not among the new rows.
RemoveMatchingKeys(m, new) ==
    SelectSeqIdx(m, [i \in 1..Len(m) |->
                        \A j \in 1..Len(new) : KeyOf(new[j]) # KeyOf(m[i])], 1)

SessionIdle ==
    /\ disk = <<>>
    /\ pc = [s \in Sessions |-> "done"]
    /\ sMaster = [s \in Sessions |-> <<>>]
    /\ sNew = [s \in Sessions |-> <<>>]

SessionInit ==
    /\ disk \in StoredBefore
    /\ pc = [s \in Sessions |-> "line 280"]
    /\ sMaster = [s \in Sessions |-> <<>>]
    /\ \E a \in SeqsUpTo(SessionRows(1), MaxSessionRows),
          b \in SeqsUpTo(SessionRows(2), MaxSessionRows) :
          sNew = [s \in Sessions |-> IF s = 1 THEN a ELSE b]

\* Lines 280-284: master = pd.read_csv(SCORES_MASTER_CSV), or the empty table
\* when the file is not there; new_scores loses its repeated keys.
ReadMaster(s) ==
    /\ pc[s] = "line 280"
    /\ sMaster' = [sMaster EXCEPT ![s] = disk]
    /\ sNew' = [sNew EXCEPT ![s] = DropDuplicatesKeepLast(sNew[s])]
    /\ pc' = [pc EXCEPT ![s] = "line 285"]
    /\ UNCHANGED disk

\* Lines 285-287 and 289-290: with rows in master the rows of matching key are
\* removed; an empty master is replaced by new_scores.
RemoveMatching(s) ==
    /\ pc[s] = "line 285"
    /\ IF Len(sMaster[s]) > 0
       THEN /\ sMaster' = [sMaster EXCEPT ![s] = RemoveMatchingKeys(sMaster[s], sNew[s])]
            /\ pc' = [pc EXCEPT ![s] = "line 288"]
       ELSE /\ sMaster' = [sMaster EXCEPT ![s] = sNew[s]]
            /\ pc' = [pc EXCEPT ![s] = "line 291"]
    /\ UNCHANGED <<disk, sNew>>

\* Line 288: master = pd.concat([master, new_scores]).
AppendNew(s) ==
    /\ pc[s] = "line 288"
    /\ sMaster' = [sMaster EXCEPT ![s] = sMaster[s] \o sNew[s]]
    /\ pc' = [pc EXCEPT ![s] = "line 291"]
    /\ UNCHANGED <<disk, sNew>>

\* Line 291: save_csv(master, SCORES_MASTER_CSV) rewrites the whole file.
WriteMaster(s) ==
    /\ pc[s] = "line 291"
    /\ disk' = sMaster[s]
    /\ pc' = [pc EXCEPT ![s] = "done"]
    /\ UNCHANGED <<sMaster, sNew>>

SessionNext ==
    \E s \in Sessions :
        \/ ReadMaster(s)
        \/ RemoveMatching(s)
        \/ AppendNew(s)
        \/ WriteMaster(s)

\* C16: once both sessions have written the master file, the file holds the
\* valid records of both uploads (no upload is lost), whatever the order in
\* which the steps of the two sessions were taken.
C16_NoUploadLost ==
    (\A s \in Sessions : pc[s] = "done") =>
        \A s \in Sessions : \A i \in 1..Len(sNew[s]) :
            \E j \in 1..Len(disk) : disk[j] = sNew[s][i]

(***************************************************************************)
(* Specifications                                                          *)
(***************************************************************************)
UploadIdle ==
    /\ master = <<>> /\ file = <<>> /\ processed = FALSE /\ dropped = 0
    /\ latest = <<>> /\ overwrote = FALSE

Init ==
    UploadInit /\ ColorIdle /\ LightIdle /\ BasicIdle /\ WindowIdle /\ AdvIdle /\ AnonIdle /\ PageIdle /\ BandIdle /\ LenIdle /\ SessionIdle

Next ==
    UploadNext /\ UNCHANGED <<colorVars, lightVars, basicVars, windowVars, advVars, anonVars, pageVars, bandVars, lenVars, sessionVars>>

Spec == Init /\ [][Next]_vars

InitColor ==
    UploadIdle /\ ColorInit /\ LightIdle /\ BasicIdle /\ WindowIdle /\ AdvIdle /\ AnonIdle /\ PageIdle /\ BandIdle /\ LenIdle /\ SessionIdle

ColorNext ==
    Classify /\ UNCHANGED <<uploadVars, lightVars, basicVars, windowVars, advVars, anonVars, pageVars, bandVars, lenVars, sessionVars>>

SpecColor == InitColor /\ [][ColorNext]_vars

InitLight ==
    UploadIdle /\ ColorIdle /\ LightInit /\ BasicIdle /\ WindowIdle /\ AdvIdle /\ AnonIdle /\ PageIdle /\ BandIdle /\ LenIdle /\ SessionIdle

LightNext ==
    ApplyThresholds /\ UNCHANGED <<uploadVars, colorVars, basicVars, windowVars, advVars, anonVars, pageVars, bandVars, lenVars, sessionVars>>

SpecLight == InitLight /\ [][LightNext]_vars

InitBasic ==
    UploadIdle /\ ColorIdle /\ LightIdle /\ BasicInit /\ WindowIdle /\ AdvIdle /\ AnonIdle /\ PageIdle /\ BandIdle /\ LenIdle /\ SessionIdle

BasicNext ==
    RiskSnapshotBasic /\ UNCHANGED <<uploadVars, colorVars, lightVars, windowVars, advVars, anonVars, pageVars, bandVars, lenVars, sessionVars>>

SpecBasic == InitBasic /\ [][BasicNext]_vars

InitWindow ==
    UploadIdle /\ ColorIdle /\ LightIdle /\ BasicIdle /\ WindowInit /\ AdvIdle /\ AnonIdle /\ PageIdle /\ BandIdle /\ LenIdle /\ SessionIdle

WindowNext ==
    WindowAlert /\ UNCHANGED <<uploadVars, colorVars, lightVars, basicVars, advVars, anonVars, pageVars, bandVars, lenVars, sessionVars>>

SpecWindow == InitWindow /\ [][WindowNext]_vars

InitAdv ==
    UploadIdle /\ ColorIdle /\ LightIdle /\ BasicIdle /\ WindowIdle /\ AdvInit /\ AnonIdle /\ PageIdle /\ BandIdle /\ LenIdle /\ SessionIdle

AdvNext ==
    RiskSnapshotAdvanced /\ UNCHANGED <<uploadVars, colorVars, lightVars, basicVars, windowVars, anonVars, pageVars, bandVars, lenVars, sessionVars>>

SpecAdv == InitAdv /\ [][AdvNext]_vars

InitAnon ==
    UploadIdle /\ ColorIdle /\ LightIdle /\ BasicIdle /\ WindowIdle /\ AdvIdle /\ AnonInit /\ PageIdle /\ BandIdle /\ LenIdle /\ SessionIdle

AnonNext ==
    GenerateAnonMap /\ UNCHANGED <<uploadVars, colorVars, lightVars, basicVars, windowVars, advVars, pageVars, bandVars, lenVars, sessionVars>>

SpecAnon == InitAnon /\ [][AnonNext]_vars

InitPage ==
    UploadIdle /\ ColorIdle /\ LightIdle /\ BasicIdle /\ WindowIdle /\ AdvIdle /\ AnonIdle /\ PageIdle /\ BandIdle /\ LenIdle /\ SessionIdle

PageStep ==
    PageNext /\ UNCHANGED <<uploadVars, colorVars, lightVars, basicVars, windowVars, advVars, anonVars, bandVars, lenVars, sessionVars>>

SpecPage == InitPage /\ [][PageStep]_vars

InitBands ==
    UploadIdle /\ ColorIdle /\ LightIdle /\ BasicIdle /\ WindowIdle /\ AdvIdle /\ AnonIdle /\ PageIdle /\ BandInit /\ LenIdle /\ SessionIdle

BandNext ==
    ClassifyThrice /\ UNCHANGED <<uploadVars, colorVars, lightVars, basicVars, windowVars, advVars, anonVars, pageVars, lenVars, sessionVars>>

SpecBands == InitBands /\ [][BandNext]_vars

InitLen ==
    UploadIdle /\ ColorIdle /\ LightIdle /\ BasicIdle /\ WindowIdle /\ AdvIdle /\ AnonIdle /\ PageIdle /\ BandIdle /\ LenInit /\ SessionIdle

LenNext ==
    WindowAlertAnyLen /\ UNCHANGED <<uploadVars, colorVars, lightVars, basicVars, windowVars, advVars, anonVars, pageVars, bandVars, sessionVars>>

SpecLen == InitLen /\ [][LenNext]_vars

InitSessions ==
    UploadIdle /\ ColorIdle /\ LightIdle /\ BasicIdle /\ WindowIdle /\ AdvIdle /\ AnonIdle /\ PageIdle /\ BandIdle /\ LenIdle /\ SessionInit

SessionStep ==
    SessionNext /\ UNCHANGED <<uploadVars, colorVars, lightVars, basicVars, windowVars, advVars, anonVars, pageVars, bandVars, lenVars>>

SpecSessions == InitSessions /\ [][SessionStep]_vars

=============================================================================
